---- MODULE Spec2Model ----
(***************************************************************************)
(* Model of scripts/extract_options.py: the streaming pipeline that        *)
(* filters option-quote rows by quote time and DTE, derives strike         *)
(* distances, keeps the 10 nearest strikes below and above the underlying  *)
(* per (QUOTE_READTIME, EXPIRE_DATE) group of every chunk, and appends the *)
(* result to a CSV file.                                                   *)
(*                                                                         *)
(* A cell value is a record [t, n, d, s]:                                  *)
(*   t = "num"  : the rational n/d (d > 0, reduced)                        *)
(*   t = "inf"  : +inf (n = 1) or -inf (n = -1), as float division gives   *)
(*   t = "na"   : the missing marker (NaN / pd.NA / None)                  *)
(*   t = "text" : the string s, a sequence of one-character strings        *)
(* A DataFrame is a record [cols, rows]: cols the column names in order,   *)
(* rows a sequence of [idx, v] with idx the line of the input the row came *)
(* from and v a function from the column names to cell values.             *)
(***************************************************************************)
EXTENDS Integers, Sequences, FiniteSets, TLC

VARIABLES columns, rows, chunksize, pos, batch, header_written, outfile,
          pc, run, chunk, selected, step, written, firstOut

\* columns, rows   the input file: its header (names without brackets) and lines
\* chunksize       --chunksize
\* pos, batch      lines read so far and chunks read so far by this run
\* header_written  main's flag
\* outfile         the lines of the file at --out
\* pc              "loop" in the for loop, "done" after it, "raised" after a KeyError
\* run             1 for the first invocation, 2 for a second one on the same input
\* chunk, selected main's locals as the last iteration left them
\* step            what the last iteration did: "none", "empty_chunk",
\*                 "empty_selection", "written" or "raised"
\* written         for each line of outfile, the run, chunk and input line it is from
\* firstOut        outfile as the first run left it

vars == <<columns, rows, chunksize, pos, batch, header_written, outfile,
          pc, run, chunk, selected, step, written, firstOut>>

-----------------------------------------------------------------------------
(* Cell values *)

NA == [t |-> "na", n |-> 0, d |-> 1, s |-> <<>>]

Abs(x) == IF x < 0 THEN -x ELSE x

Min(a, b) == IF a <= b THEN a ELSE b

RECURSIVE Gcd(_, _)
Gcd(a, b) == IF b = 0 THEN a ELSE Gcd(b, a % b)

\* the rational n/d for d # 0, reduced, with a positive denominator
Frac(n, d) ==
    LET g == Gcd(Abs(n), Abs(d))
        sg == IF d < 0 THEN -1 ELSE 1
    IN [t |-> "num", n |-> (sg * n) \div g, d |-> Abs(d) \div g, s |-> <<>>]

Num(n) == [t |-> "num", n |-> n, d |-> 1, s |-> <<>>]

Inf(sign) == [t |-> "inf", n |-> sign, d |-> 1, s |-> <<>>]

Text(str) == [t |-> "text", n |-> 0, d |-> 1, s |-> str]

\* pd.isna
IsNA(x) == x.t = "na"

IsNum(x) == x.t = "num"

\* x < y, x <= y on floats; any comparison with a missing operand is False
Lt(x, y) ==
    /\ x.t \in {"num", "inf"} /\ y.t \in {"num", "inf"}
    /\ IF x.t = "inf" THEN x.n = -1 /\ ~(y.t = "inf" /\ y.n = -1)
       ELSE IF y.t = "inf" THEN y.n = 1
       ELSE x.n * y.d < y.n * x.d

Le(x, y) ==
    /\ x.t \in {"num", "inf"} /\ y.t \in {"num", "inf"}
    /\ (x = y \/ Lt(x, y))

\* x - y on float columns: missing if either operand is missing
Sub(x, y) ==
    IF IsNum(x) /\ IsNum(y) THEN Frac(x.n * y.d - y.n * x.d, x.d * y.d)
    ELSE NA

\* x / y on float columns under np.errstate(divide="ignore", invalid="ignore"):
\* a nonzero value over zero is +/-inf, zero over zero is NaN
DivideBy(x, y) ==
    IF ~(IsNum(x) /\ IsNum(y)) THEN NA
    ELSE IF y.n = 0 THEN (IF x.n = 0 THEN NA ELSE Inf(IF x.n > 0 THEN 1 ELSE -1))
    ELSE Frac(x.n * y.d, x.d * y.n)

\* np.abs
AbsVal(x) == IF IsNum(x) THEN Frac(Abs(x.n), x.d) ELSE IF x.t = "inf" THEN Inf(1) ELSE x

\* pd.to_numeric(errors="coerce") of one cell: text that is no number becomes
\* the missing marker
ToNumeric(x) == IF x.t = "text" THEN NA ELSE x

-----------------------------------------------------------------------------
(* Sequences *)

ToSet(sq) == {sq[i] : i \in 1..Len(sq)}

RECURSIVE SelectIdx(_, _, _)
\* the subsequence of sq at the positions i with keep[i], in order
SelectIdx(sq, keep, i) ==
    IF i > Len(sq) THEN <<>>
    ELSE (IF keep[i] THEN <<sq[i]>> ELSE <<>>) \o SelectIdx(sq, keep, i + 1)

-----------------------------------------------------------------------------
(* Program constants *)

Colon == ":"

Space == " "

Digits == {"0", "1", "2", "3", "4", "5", "6", "7", "8", "9"}

TIME_WHITELIST == {<<"0", "9", ":", "3", "0">>, <<"1", "5", ":", "4", "5">>}

\* the keys of the NUMERIC table
NUMERIC ==
    {"QUOTE_UNIXTIME", "QUOTE_TIME_HOURS", "UNDERLYING_LAST", "EXPIRE_UNIX", "DTE",
     "C_DELTA", "C_GAMMA", "C_VEGA", "C_THETA", "C_RHO", "C_IV", "C_VOLUME", "C_LAST",
     "C_BID", "C_ASK", "STRIKE", "P_BID", "P_ASK", "P_LAST",
     "P_DELTA", "P_GAMMA", "P_VEGA", "P_THETA", "P_RHO", "P_IV", "P_VOLUME",
     "STRIKE_DISTANCE", "STRIKE_DISTANCE_PCT"}

OUTPUT_ORDER ==
    <<"QUOTE_READTIME", "UNDERLYING_LAST", "EXPIRE_DATE", "DTE",
      "C_THETA", "C_IV", "C_VOLUME", "C_LAST", "C_SIZE",
      "C_BID", "C_ASK", "STRIKE", "P_BID", "P_ASK", "P_SIZE", "P_LAST",
      "P_THETA", "P_IV", "P_VOLUME", "STRIKE_DISTANCE", "STRIKE_DISTANCE_PCT">>

\* the second list of main's column ordering
EXTRAS ==
    <<"QUOTE_DATE", "QUOTE_TIME_HOURS", "EXPIRE_UNIX",
      "C_DELTA", "C_GAMMA", "C_VEGA", "C_RHO",
      "P_DELTA", "P_GAMMA", "P_VEGA", "P_RHO",
      "QUOTE_UNIXTIME", "P_VOLUME", "C_VOLUME", "HHMM">>

GROUP_COLS == <<"QUOTE_READTIME", "EXPIRE_DATE">>

DTE_MIN == 0

DTE_MAX == 14

\* head(10) of each side
SIDE_LIMIT == 10

-----------------------------------------------------------------------------
(* time_hhmm *)

RECURSIVE LStrip(_)
LStrip(str) == IF str # <<>> /\ Head(str) = Space THEN LStrip(Tail(str)) ELSE str

RECURSIVE RStrip(_)
RStrip(str) ==
    IF str # <<>> /\ str[Len(str)] = Space THEN RStrip(SubSeq(str, 1, Len(str) - 1))
    ELSE str

\* str.strip()
Strip(str) == RStrip(LStrip(str))

\* str.split()[-1] of a stripped, non-empty string: what follows its last blank
LastToken(str) ==
    LET blanks == {i \in 1..Len(str) : str[i] = Space}
        last == IF blanks = {} THEN 0 ELSE CHOOSE i \in blanks : \A j \in blanks : j <= i
    IN SubSeq(str, last + 1, Len(str))

RECURSIVE SplitOn(_, _)
\* str.split(sep) for a one-character sep
SplitOn(str, sep) ==
    LET at == {i \in 1..Len(str) : str[i] = sep}
    IN IF at = {} THEN <<str>>
       ELSE LET first == CHOOSE i \in at : \A j \in at : i <= j
            IN <<SubSeq(str, 1, first - 1)>> \o SplitOn(SubSeq(str, first + 1, Len(str)), sep)

\* str.isdigit() over the ASCII alphabet of the model
IsDigitStr(str) == str # <<>> /\ \A i \in 1..Len(str) : str[i] \in Digits

\* time_hhmm(s): Text(hh:mm), or NA for None
time_hhmm(x) ==
    IF x.t # "text" THEN NA
    ELSE LET t == Strip(x.s)
         IN IF t = <<>> THEN NA
            ELSE LET time_token == LastToken(t)
                 IN IF Len(time_token) >= 5 /\ Colon \in ToSet(time_token)
                    THEN LET hhmm == SubSeq(time_token, 1, 5)
                             parts == SplitOn(hhmm, Colon)
                         IN IF /\ Len(parts) = 2
                               /\ Len(parts[1]) = 2 /\ Len(parts[2]) = 2
                               /\ IsDigitStr(parts[1]) /\ IsDigitStr(parts[2])
                            THEN Text(parts[1] \o <<Colon>> \o parts[2])
                            ELSE NA
                    ELSE NA

\* hhmm.isin(TIME_WHITELIST) for one cell
InWhitelist(h) == h.t = "text" /\ h.s \in TIME_WHITELIST

DteInRangeLoose(x) == Le(Num(DTE_MIN), x) /\ Le(x, Num(DTE_MAX + 1))

\* (DTE >= 0) & (DTE <= 14) for one cell
DteInRange(x) == Le(Num(DTE_MIN), x) /\ Le(x, Num(DTE_MAX))

-----------------------------------------------------------------------------
(* DataFrames *)

Cols(df) == ToSet(df.cols)

EmptyDf == [cols |-> <<>>, rows |-> <<>>]

\* df[c] = vals: the column is appended when it is new
SetCol(df, c, vals) ==
    [cols |-> IF c \in Cols(df) THEN df.cols ELSE Append(df.cols, c),
     rows |-> [i \in 1..Len(df.rows) |->
                 [idx |-> df.rows[i].idx,
                  v |-> [k \in Cols(df) \cup {c} |->
                           IF k = c THEN vals[i] ELSE df.rows[i].v[k]]]]]

\* df[mask]
Where(df, mask) == [cols |-> df.cols, rows |-> SelectIdx(df.rows, mask, 1)]

\* df[c].isna().all() (True on an empty frame)
AllNA(df, c) == \A i \in 1..Len(df.rows) : IsNA(df.rows[i].v[c])

ensure_numeric(df) ==
    [cols |-> df.cols,
     rows |-> [i \in 1..Len(df.rows) |->
                 [idx |-> df.rows[i].idx,
                  v |-> [k \in Cols(df) |->
                           IF k \in NUMERIC THEN ToNumeric(df.rows[i].v[k])
                           ELSE df.rows[i].v[k]]]]]

DeriveDistanceIfAnyNA(df) ==
    "STRIKE_DISTANCE" \notin Cols(df)
    \/ \E i \in 1..Len(df.rows) : IsNA(df.rows[i].v["STRIKE_DISTANCE"])

\* the test on line 92: derive STRIKE_DISTANCE when the column is absent or
\* all missing in df
DeriveDistance(df) ==
    "STRIKE_DISTANCE" \notin Cols(df) \/ AllNA(df, "STRIKE_DISTANCE")

\* the test on line 94
DerivePct(df) ==
    "STRIKE_DISTANCE_PCT" \notin Cols(df) \/ AllNA(df, "STRIKE_DISTANCE_PCT")

\* line 93
DistanceOf(v) == Sub(v["STRIKE"], v["UNDERLYING_LAST"])

\* line 96
PctOf(v) == DivideBy(Sub(v["STRIKE"], v["UNDERLYING_LAST"]), v["UNDERLYING_LAST"])

compute_distances(df) ==
    IF "STRIKE" \in Cols(df) /\ "UNDERLYING_LAST" \in Cols(df)
    THEN LET d1 == IF DeriveDistance(df)
                   THEN SetCol(df, "STRIKE_DISTANCE",
                               [i \in 1..Len(df.rows) |-> DistanceOf(df.rows[i].v)])
                   ELSE df
         IN IF DerivePct(d1)
            THEN SetCol(d1, "STRIKE_DISTANCE_PCT",
                        [i \in 1..Len(d1.rows) |-> PctOf(d1.rows[i].v)])
            ELSE d1
    ELSE df

\* the sort key "_abs"
AbsKey(r) == AbsVal(r.v["STRIKE_DISTANCE"])

RECURSIVE InsertBeforeTies(_, _)
InsertBeforeTies(sorted, r) ==
    IF sorted = <<>> THEN <<r>>
    ELSE IF Le(AbsKey(r), AbsKey(Head(sorted))) THEN <<r>> \o sorted
    ELSE <<Head(sorted)>> \o InsertBeforeTies(Tail(sorted), r)

RECURSIVE InsertStable(_, _)
\* r put behind every row whose key is not greater: equal keys keep their order
InsertStable(sorted, r) ==
    IF sorted = <<>> THEN <<r>>
    ELSE IF Lt(AbsKey(r), AbsKey(Head(sorted))) THEN <<r>> \o sorted
    ELSE <<Head(sorted)>> \o InsertStable(Tail(sorted), r)

NoSort(sq) == sq

RECURSIVE SortByAbs(_)
\* sort_values("_abs", kind="stable")
SortByAbs(sq) ==
    IF sq = <<>> THEN <<>>
    ELSE InsertStable(SortByAbs(SubSeq(sq, 1, Len(sq) - 1)), sq[Len(sq)])

IsAboveOrMissing(v) == ~Lt(v["STRIKE_DISTANCE"], Num(0))

IsAbove(v) == Le(Num(0), v["STRIKE_DISTANCE"])

IsBelow(v) == Lt(v["STRIKE_DISTANCE"], Num(0))

HeadRowsLoose(sq) == SubSeq(sq, 1, Min(SIDE_LIMIT + 1, Len(sq)))

\* .head(10)
HeadRows(sq) == SubSeq(sq, 1, Min(SIDE_LIMIT, Len(sq)))

\* select_10_above_below raises KeyError when the frame has rows and, after
\* compute_distances, still no STRIKE_DISTANCE column
SelectRaises(df) ==
    df.rows # <<>> /\ "STRIKE_DISTANCE" \notin Cols(compute_distances(df))

select_10_above_below(df) ==
    IF df.rows = <<>> THEN df
    ELSE LET d == compute_distances(df)
             above == HeadRows(SortByAbs(
                          Where(d, [i \in 1..Len(d.rows) |-> IsAbove(d.rows[i].v)]).rows))
             below == HeadRows(SortByAbs(
                          Where(d, [i \in 1..Len(d.rows) |-> IsBelow(d.rows[i].v)]).rows))
         IN [cols |-> d.cols, rows |-> below \o above]

\* line 152
GroupCols(df) == SelectIdx(GROUP_COLS, [i \in 1..Len(GROUP_COLS) |-> GROUP_COLS[i] \in Cols(df)], 1)

\* the group key of a row
KeyOf(v, gcols) == [i \in 1..Len(gcols) |-> v[gcols[i]]]

RECURSIVE KeysInOrder(_, _, _)
\* the distinct keys, in order of first appearance (sort=False, dropna=False)
KeysInOrder(rs, gcols, seen) ==
    IF rs = <<>> THEN <<>>
    ELSE LET k == KeyOf(Head(rs).v, gcols)
         IN IF k \in seen THEN KeysInOrder(Tail(rs), gcols, seen)
            ELSE <<k>> \o KeysInOrder(Tail(rs), gcols, seen \cup {k})

\* the rows of one group, in their order in df
GroupOf(df, gcols, k) ==
    [cols |-> df.cols,
     rows |-> SelectIdx(df.rows,
                        [i \in 1..Len(df.rows) |-> KeyOf(df.rows[i].v, gcols) = k], 1)]

RECURSIVE ConcatGroups(_, _, _)
ConcatGroups(df, gcols, keys) ==
    IF keys = <<>> THEN <<>>
    ELSE select_10_above_below(GroupOf(df, gcols, Head(keys))).rows
         \o ConcatGroups(df, gcols, Tail(keys))

\* lines 152-157: groupby(group_cols).apply(select_10_above_below), or the
\* selection over the whole chunk when no grouping column is present
GroupSelect(df) ==
    LET gcols == GroupCols(df)
    IN IF gcols # <<>>
       THEN [cols |-> compute_distances(df).cols,
             rows |-> ConcatGroups(df, gcols, KeysInOrder(df.rows, gcols, {}))]
       ELSE select_10_above_below(df)

\* lines 162-169
ColsOut(df) ==
    LET cols == SelectIdx(OUTPUT_ORDER,
                          [i \in 1..Len(OUTPUT_ORDER) |-> OUTPUT_ORDER[i] \in Cols(df)], 1)
        extras == SelectIdx(EXTRAS, [i \in 1..Len(EXTRAS) |-> EXTRAS[i] \in Cols(df)], 1)
        remaining == SelectIdx(df.cols,
                               [i \in 1..Len(df.cols) |->
                                  df.cols[i] \notin ToSet(cols) \cup ToSet(extras)], 1)
    IN cols \o extras \o remaining

WriteHeaderAlways(hw) == TRUE

\* header=(not header_written)
WriteHeader(hw) == ~hw

\* the header line of to_csv: the column names
HeaderLine(cols_out) == [hdr |-> TRUE, names |-> cols_out, cells |-> <<>>]

\* one data line of to_csv(columns=cols_out): the row's cells in that order
DataLine(v, cols_out) ==
    [hdr |-> FALSE, names |-> <<>>, cells |-> [i \in 1..Len(cols_out) |-> v[cols_out[i]]]]

\* to_csv(out_path, mode="a", header=hdr, columns=cols_out): the lines appended
CsvLines(df, cols_out, hdr) ==
    (IF hdr THEN <<HeaderLine(cols_out)>> ELSE <<>>)
    \o [i \in 1..Len(df.rows) |-> DataLine(df.rows[i].v, cols_out)]

-----------------------------------------------------------------------------
(* main: the loop over the chunks of the input *)

\* the next chunk read_csv yields: at most chunksize lines from line pos + 1 on
ReadChunk ==
    [cols |-> columns,
     rows |-> [i \in 1..Min(chunksize, Len(rows) - pos) |->
                 [idx |-> pos + i, v |-> rows[pos + i]]]]

CoerceDte(v) == ToNumeric(v["DTE"])

DteKept(v) == DteInRange(v["DTE"])

\* lines 136-138
FilterDte(df) ==
    IF "DTE" \in Cols(df)
    THEN LET d == SetCol(df, "DTE", [i \in 1..Len(df.rows) |-> CoerceDte(df.rows[i].v)])
         IN Where(d, [i \in 1..Len(d.rows) |-> DteKept(d.rows[i].v)])
    ELSE df

ClassOf(v) == time_hhmm(v["QUOTE_READTIME"])

TimeKept(v) == InWhitelist(ClassOf(v))

\* lines 140-144
FilterTime(df) ==
    IF "QUOTE_READTIME" \in Cols(df)
    THEN LET d == Where(df, [i \in 1..Len(df.rows) |-> TimeKept(df.rows[i].v)])
         IN SetCol(d, "HHMM", [i \in 1..Len(d.rows) |-> ClassOf(d.rows[i].v)])
    ELSE df

\* what the write of one iteration records about each line it appends
Meta(df, hdr) ==
    (IF hdr THEN <<[run |-> run, batch |-> batch + 1, hdr |-> TRUE, idx |-> 0,
                    v |-> [c \in {} |-> NA]]>>
     ELSE <<>>)
    \o [i \in 1..Len(df.rows) |->
          [run |-> run, batch |-> batch + 1, hdr |-> FALSE, idx |-> df.rows[i].idx,
           v |-> df.rows[i].v]]

\* lines 152-157 on a chunk that has rows; nothing is selected when the
\* selection raises
Selection(numeric) == IF SelectRaises(numeric) THEN EmptyDf ELSE GroupSelect(numeric)

\* one iteration of the for loop, lines 133-172
ProcessChunk ==
    /\ pc = "loop"
    /\ pos < Len(rows)
    /\ \E filtered \in {FilterTime(FilterDte(ReadChunk))} :
       \E numeric \in {compute_distances(ensure_numeric(filtered))} :
       \E sel \in {Selection(numeric)} :
       \E hdr \in {WriteHeader(header_written)} :
          /\ pos' = pos + Len(ReadChunk.rows)
          /\ batch' = batch + 1
          /\ IF filtered.rows = <<>>
             THEN /\ chunk' = filtered
                  /\ step' = "empty_chunk"
                  /\ UNCHANGED <<selected, header_written, outfile, written, pc>>
             ELSE IF SelectRaises(numeric)
             THEN /\ chunk' = numeric
                  /\ step' = "raised"
                  /\ pc' = "raised"
                  /\ UNCHANGED <<selected, header_written, outfile, written>>
             ELSE IF sel.rows = <<>>
             THEN /\ chunk' = numeric
                  /\ selected' = sel
                  /\ step' = "empty_selection"
                  /\ UNCHANGED <<header_written, outfile, written, pc>>
             ELSE /\ chunk' = numeric
                  /\ selected' = sel
                  /\ step' = "written"
                  /\ outfile' = outfile \o CsvLines(sel, ColsOut(sel), hdr)
                  /\ written' = written \o Meta(sel, hdr)
                  /\ header_written' = TRUE
                  /\ pc' = pc
    /\ UNCHANGED <<columns, rows, chunksize, run, firstOut>>

\* the input is exhausted: main returns
EndOfInput ==
    /\ pc = "loop"
    /\ pos >= Len(rows)
    /\ pc' = "done"
    /\ firstOut' = IF run = 1 THEN outfile ELSE firstOut
    /\ UNCHANGED <<columns, rows, chunksize, pos, batch, header_written, outfile,
                   run, chunk, selected, written, step>>

\* the program is started again on the same input with the same options:
\* main's locals start afresh, the output file is what the first run left
Rerun ==
    /\ pc = "done"
    /\ run = 1
    /\ run' = 2
    /\ pc' = "loop"
    /\ pos' = 0
    /\ batch' = 0
    /\ header_written' = FALSE
    /\ chunk' = EmptyDf
    /\ selected' = EmptyDf
    /\ step' = "none"
    /\ UNCHANGED <<columns, rows, chunksize, outfile, written, firstOut>>

Next == ProcessChunk \/ EndOfInput \/ Rerun

\* the state main starts its loop in, for an input file and a --chunksize
Start(cs, rs, k) ==
    /\ columns = cs
    /\ rows = rs
    /\ chunksize = k
    /\ pos = 0
    /\ batch = 0
    /\ header_written = FALSE
    /\ outfile = <<>>
    /\ pc = "loop"
    /\ run = 1
    /\ chunk = EmptyDf
    /\ selected = EmptyDf
    /\ written = <<>>
    /\ firstOut = <<>>
    /\ step = "none"

-----------------------------------------------------------------------------
(* Input files *)

\* a cell of a column the scenario does not vary
DefaultCell(c) == IF c \in NUMERIC THEN Num(1) ELSE Text(<<"x">>)

\* a line of a file with the columns cs: the cells of f, the default elsewhere
MkRow(cs, f) == [c \in ToSet(cs) |-> IF c \in DOMAIN f THEN f[c] ELSE DefaultCell(c)]

RECURSIVE SeqsUpTo(_, _)
\* the sequences over S of length at most n
SeqsUpTo(S, n) ==
    IF n = 0 THEN {<<>>}
    ELSE LET shorter == SeqsUpTo(S, n - 1)
         IN shorter \cup {Append(sq, x) : sq \in {q \in shorter : Len(q) = n - 1}, x \in S}

T0930Full == <<"0", "1", "-", "0", "3", " ", "0", "9", ":", "3", "0", ":", "0", "0">>

T1545 == <<" ", "1", "5", ":", "4", "5", " ">>

T1015 == <<"0", "1", "-", "0", "3", " ", "1", "0", ":", "1", "5", ":", "0", "0">>

T930Short == <<"9", ":", "3", "0", ":", "0", "0">>

T0930Trailing == <<"0", "9", ":", "3", "0", " ", "x">>

TBlank == <<" ">>

E1 == Text(<<"e", "1">>)

E2 == Text(<<"e", "2">>)

Abc == Text(<<"a", "b", "c">>)

(* Files for the filters: QUOTE_READTIME and DTE vary *)

FilterMaxRows == 2

FilterSchemas ==
    {<<"QUOTE_READTIME", "UNDERLYING_LAST", "EXPIRE_DATE", "DTE", "STRIKE">>,
     <<"QUOTE_READTIME", "UNDERLYING_LAST", "EXPIRE_DATE", "STRIKE">>,
     <<"UNDERLYING_LAST", "EXPIRE_DATE", "DTE", "STRIKE">>}

FilterCells ==
    {[QUOTE_READTIME |-> q, DTE |-> Num(3), STRIKE |-> Num(101), UNDERLYING_LAST |-> Num(100)] :
        q \in {Text(T0930Full), Text(T1545), Text(T1015), Text(T930Short),
               Text(T0930Trailing), Text(TBlank), NA}}
    \cup
    {[QUOTE_READTIME |-> q, DTE |-> d, STRIKE |-> Num(99), UNDERLYING_LAST |-> Num(100)] :
        q \in {Text(T0930Full), Text(T1015)},
        d \in {Num(-1), Num(0), Num(14), Num(15), NA, Abc}}

InitFilter ==
    \E cs \in FilterSchemas :
      \E rs \in SeqsUpTo({MkRow(cs, f) : f \in FilterCells}, FilterMaxRows) :
        \E k \in {1, FilterMaxRows} : Start(cs, rs, k)

SpecFilter == InitFilter /\ [][Next]_vars

(* Files for the selection: the strike distance and the group vary, and a
   run of equal lines can be longer than one side of a group may keep *)

SelectMaxRuns == 2

LongRun == SIDE_LIMIT + 1

SelectSchemas ==
    {<<"QUOTE_READTIME", "UNDERLYING_LAST", "EXPIRE_DATE", "DTE", "STRIKE", "STRIKE_DISTANCE">>,
     <<"QUOTE_READTIME", "UNDERLYING_LAST", "EXPIRE_DATE", "DTE", "STRIKE">>}

\* a line at distance dist from the underlying, or without a usable strike
SelectCell(e, dte, dist) ==
    [QUOTE_READTIME |-> Text(T0930Full), EXPIRE_DATE |-> e, DTE |-> dte,
     UNDERLYING_LAST |-> Num(100),
     STRIKE |-> IF IsNA(dist) THEN Abc ELSE Num(100 + dist.n),
     STRIKE_DISTANCE |-> dist]

SelectCells ==
    {SelectCell(E1, Num(3), x) : x \in {Num(-2), Num(-1), Num(1), NA}}
    \cup {SelectCell(E2, Num(3), Num(-1)), SelectCell(E1, Num(15), Num(-1))}

RECURSIVE Expand(_)
\* the lines of a sequence of runs <<line, count>>
Expand(runs) ==
    IF runs = <<>> THEN <<>>
    ELSE [i \in 1..Head(runs)[2] |-> Head(runs)[1]] \o Expand(Tail(runs))

InitSelect ==
    \E cs \in SelectSchemas :
      \E runs \in SeqsUpTo({MkRow(cs, f) : f \in SelectCells} \X {1, LongRun}, SelectMaxRuns) :
        \E k \in {LongRun \div 2 + 1, LongRun + 1} : Start(cs, Expand(runs), k)

SpecSelect == InitSelect /\ [][Next]_vars

(* Files for the distances: STRIKE, UNDERLYING_LAST and the two supplied
   distance columns vary, also in being there at all *)

DistMaxRows == 2

DistSchemas ==
    {<<"QUOTE_READTIME", "UNDERLYING_LAST", "EXPIRE_DATE", "DTE", "STRIKE",
       "STRIKE_DISTANCE", "STRIKE_DISTANCE_PCT">>,
     <<"QUOTE_READTIME", "UNDERLYING_LAST", "EXPIRE_DATE", "DTE", "STRIKE">>,
     <<"QUOTE_READTIME", "EXPIRE_DATE", "DTE", "STRIKE", "STRIKE_DISTANCE">>,
     <<"QUOTE_READTIME", "EXPIRE_DATE", "DTE", "STRIKE">>}

DistCell(e, k, u, sd, pct) ==
    [QUOTE_READTIME |-> Text(T1545), EXPIRE_DATE |-> e, DTE |-> Num(0),
     STRIKE |-> k, UNDERLYING_LAST |-> u, STRIKE_DISTANCE |-> sd,
     STRIKE_DISTANCE_PCT |-> pct]

DistCells ==
    {DistCell(e, k, u, sd, NA) :
        e \in {E1, E2}, k \in {Num(101), Abc}, u \in {Num(100), Num(0)}, sd \in {Num(-3), NA}}
    \cup {DistCell(E1, Num(101), NA, NA, NA),
          DistCell(E1, Num(101), Num(100), Abc, NA),
          DistCell(E1, Num(101), Num(100), Num(-3), Num(7))}

InitDist ==
    \E cs \in DistSchemas :
      \E rs \in SeqsUpTo({MkRow(cs, f) : f \in DistCells}, DistMaxRows) :
        \E k \in {1, DistMaxRows} : Start(cs, rs, k)

SpecDist == InitDist /\ [][Next]_vars

(* Files for the column order: the columns of the input vary *)

ColsMaxRows == 1

BaseColumns == <<"QUOTE_READTIME", "UNDERLYING_LAST", "EXPIRE_DATE", "DTE", "STRIKE">>

OptionalColumns == <<"NOTE", "C_VOLUME", "QUOTE_DATE", "P_VOLUME", "C_SIZE">>

ColsSchemas ==
    LET picks == {SelectIdx(OptionalColumns, keep, 1) :
                    keep \in [1..Len(OptionalColumns) -> BOOLEAN]}
    IN {BaseColumns \o o : o \in picks} \cup {o \o BaseColumns : o \in picks}

ColsCells ==
    {[QUOTE_READTIME |-> Text(T0930Full), DTE |-> d, STRIKE |-> Num(99),
      UNDERLYING_LAST |-> Num(100), EXPIRE_DATE |-> E1] : d \in {Num(1), Num(20)}}

InitCols ==
    \E cs \in ColsSchemas :
      \E rs \in SeqsUpTo({MkRow(cs, f) : f \in ColsCells}, ColsMaxRows) :
        \E k \in {1, ColsMaxRows + 1} : Start(cs, rs, k)

SpecCols == InitCols /\ [][Next]_vars

\* any of the input files above
Init == InitFilter \/ InitSelect \/ InitDist \/ InitCols

Spec == Init /\ [][Next]_vars

-----------------------------------------------------------------------------
(* Properties *)

\* the data lines written so far
DataLines == {i \in 1..Len(written) : ~written[i].hdr}

\* the timestamp str, read independently of time_hhmm: its last
\* blank-separated token starts with one of the two whitelisted times
EndsInWhitelistedTime(str) ==
    \E p \in 1..(Len(str) - 4) :
       /\ SubSeq(str, p, p + 4) \in {<<"0", "9", ":", "3", "0">>, <<"1", "5", ":", "4", "5">>}
       /\ (p = 1 \/ str[p - 1] = " ")
       /\ \A j \in p..Len(str) : str[j] = " " => \A m \in j..Len(str) : str[m] = " "

TimeOk(v) ==
    /\ "QUOTE_READTIME" \in DOMAIN v
    /\ v["QUOTE_READTIME"].t = "text"
    /\ EndsInWhitelistedTime(v["QUOTE_READTIME"].s)

DteOk(v) ==
    /\ "DTE" \in DOMAIN v
    /\ v["DTE"].t = "num"
    /\ 0 <= v["DTE"].n /\ v["DTE"].n <= 14 * v["DTE"].d

\* C1 as stated: every row written has a QUOTE_READTIME classified 09:30 or
\* 15:45 and a DTE that is present and within 0..14, for every input
C1_AsStated == \A i \in DataLines : TimeOk(written[i].v) /\ DteOk(written[i].v)

\* C1 (amended): when the input has a QUOTE_READTIME column every row written
\* is classified 09:30 or 15:45, and when it has a DTE column every row written
\* has a DTE that is present and within 0..14; a row of the input that fails
\* the filter of a column the input has is never written
C1_FilteredOutput ==
    /\ \A i \in DataLines :
          /\ "QUOTE_READTIME" \in ToSet(columns) => TimeOk(written[i].v)
          /\ "DTE" \in ToSet(columns) => DteOk(written[i].v)
    /\ \A i \in DataLines :
          LET raw == rows[written[i].idx]
          IN /\ "QUOTE_READTIME" \in ToSet(columns) => TimeOk(raw)
             /\ "DTE" \in ToSet(columns) => DteOk(raw)

\* a run over an input with both columns has written one row and dropped
\* another one that it has read
C1_Witness ==
    /\ {"QUOTE_READTIME", "DTE"} \subseteq ToSet(columns)
    /\ DataLines # {}
    /\ \E j \in 1..pos :
          /\ ~(TimeOk(rows[j]) /\ DteOk(rows[j]))
          /\ \A i \in DataLines : written[i].idx # j

\* the strike distance of a written or selected row is negative / not negative
Neg(v) == v["STRIKE_DISTANCE"].t = "num" /\ v["STRIKE_DISTANCE"].n < 0

NonNeg(v) ==
    \/ v["STRIKE_DISTANCE"].t = "num" /\ v["STRIKE_DISTANCE"].n >= 0
    \/ v["STRIKE_DISTANCE"].t = "inf" /\ v["STRIKE_DISTANCE"].n = 1

\* the (QUOTE_READTIME, EXPIRE_DATE) group of a written row
OutKey(v) ==
    <<IF "QUOTE_READTIME" \in DOMAIN v THEN v["QUOTE_READTIME"] ELSE NA,
      IF "EXPIRE_DATE" \in DOMAIN v THEN v["EXPIRE_DATE"] ELSE NA>>

C3_Idempotent == (run = 2 /\ pc = "done") => outfile = firstOut

\* the lines a run has written, as positions of the output
LinesOfRun(r) == {i \in 1..Len(written) : written[i].run = r}

\* C4: within a run the header is written exactly once, by the first batch
\* that produces output and before any of its data rows; later batches append
\* data rows only, and a run without output writes no header
C4_HeaderOnce ==
    /\ Len(outfile) = Len(written)
    /\ \A i \in 1..Len(written) : outfile[i].hdr = written[i].hdr
    /\ \A r \in 1..run :
          LET L == LinesOfRun(r)
          IN L # {} =>
               LET first == CHOOSE i \in L : \A j \in L : i <= j
               IN /\ written[first].hdr
                  /\ \A j \in L \ {first} : ~written[j].hdr
                  /\ \A j \in L : written[j].batch >= written[first].batch
                  /\ \E j \in L : ~written[j].hdr /\ written[j].batch = written[first].batch
    /\ header_written <=> LinesOfRun(run) # {}

\* a run has skipped its first batch, written the header with a later one
\* and appended the rows of a third
C4_Witness ==
    /\ run = 1
    /\ \E i, j \in DataLines :
          /\ written[i].batch > 1
          /\ written[j].batch > written[i].batch
          /\ \E h \in 1..Len(written) : written[h].hdr /\ written[h].batch = written[i].batch

\* the rows of the chunk that belong to the group k, with the distances the
\* selection of that group works on
GroupFrame(k) == compute_distances(GroupOf(chunk, GroupCols(chunk), k))

ChunkKeys == {KeyOf(chunk.rows[i].v, GroupCols(chunk)) : i \in 1..Len(chunk.rows)}

\* the positions in selected of the rows of group k
SelectedOf(k) ==
    {j \in 1..Len(selected.rows) : KeyOf(selected.rows[j].v, GroupCols(chunk)) = k}

Magnitude(v) == IF v["STRIKE_DISTANCE"].n < 0 THEN -v["STRIKE_DISTANCE"].n
                ELSE v["STRIKE_DISTANCE"].n

\* C5: of a group with b rows below and a rows at or above the underlying the
\* selection holds min(10, b) of the former and min(10, a) of the latter, each
\* row once, and on each side no row left out is nearer than a row selected
C5_NearestTen ==
    step \in {"written", "empty_selection"} =>
      \A k \in ChunkKeys : \A g \in {GroupFrame(k).rows} : \A S \in {SelectedOf(k)} :
         \A B \in {{i \in 1..Len(g) : Neg(g[i].v)}} : \A A \in {{i \in 1..Len(g) : NonNeg(g[i].v)}} :
         LET picked(i) == \E j \in S : selected.rows[j].idx = g[i].idx
         IN /\ Cardinality({j \in S : Neg(selected.rows[j].v)}) = Min(10, Cardinality(B))
            /\ Cardinality({j \in S : NonNeg(selected.rows[j].v)}) = Min(10, Cardinality(A))
            /\ Cardinality(S) = Min(10, Cardinality(B)) + Min(10, Cardinality(A))
            /\ \A j1, j2 \in S : selected.rows[j1].idx = selected.rows[j2].idx => j1 = j2
            /\ \A j \in S : \E i \in B \cup A : /\ g[i].idx = selected.rows[j].idx
                                                /\ g[i].v = selected.rows[j].v
            /\ \A i1, i2 \in B : picked(i1) /\ ~picked(i2) => Magnitude(g[i1].v) <= Magnitude(g[i2].v)
            /\ \A i1, i2 \in A : picked(i1) /\ ~picked(i2) => Magnitude(g[i1].v) <= Magnitude(g[i2].v)

\* a group had more than 10 rows below, a nearer one behind farther ones, and
\* fewer than 10 rows at or above
C5_Witness ==
    /\ step = "written"
    /\ \E k \in ChunkKeys :
          LET g == GroupFrame(k).rows
              B == {i \in 1..Len(g) : Neg(g[i].v)}
              A == {i \in 1..Len(g) : NonNeg(g[i].v)}
          IN /\ Cardinality(B) > 10
             /\ Cardinality(A) < 10
             /\ \E i1, i2 \in B : i1 < i2 /\ Magnitude(g[i2].v) < Magnitude(g[i1].v)

\* two rows of one group and one side at the same absolute distance, the
\* first before the second in the chunk
Tied(g, i1, i2) ==
    /\ i1 < i2
    /\ (Neg(g[i1].v) /\ Neg(g[i2].v)) \/ (NonNeg(g[i1].v) /\ NonNeg(g[i2].v))
    /\ Magnitude(g[i1].v) = Magnitude(g[i2].v)

\* C6: two tied rows of a group that are both selected come out in their
\* input order, and when one of them only is selected it is the earlier one
C6_StableTies ==
    step \in {"written", "empty_selection"} =>
      \A k \in ChunkKeys : \A g \in {GroupFrame(k).rows} : \A S \in {SelectedOf(k)} :
         LET at(i) == {j \in S : selected.rows[j].idx = g[i].idx}
         IN \A i1, i2 \in 1..Len(g) :
               Tied(g, i1, i2) =>
                 /\ at(i2) # {} => at(i1) # {}
                 /\ \A j1 \in at(i1), j2 \in at(i2) : j1 < j2

\* of two tied rows the earlier one was selected and the later one left out,
\* and two other tied rows were both selected
C6_Witness ==
    /\ step = "written"
    /\ \E k \in ChunkKeys :
          LET g == GroupFrame(k).rows
              S == SelectedOf(k)
              at(i) == {j \in S : selected.rows[j].idx = g[i].idx}
          IN /\ \E i1, i2 \in 1..Len(g) : Tied(g, i1, i2) /\ at(i1) # {} /\ at(i2) = {}
             /\ \E i1, i2 \in 1..Len(g) : Tied(g, i1, i2) /\ at(i1) # {} /\ at(i2) # {}

\* the cell x of the input as a numeric column holds it: text that is no
\* number is missing
Parsed(x) == IF x.t = "text" THEN NA ELSE x

\* the STRIKE of the input line v cannot be parsed
BadStrike(v) == "STRIKE" \in DOMAIN v /\ v["STRIKE"].t = "text"

\* the input line v supplies a distance
Supplied(v) == "STRIKE_DISTANCE" \in DOMAIN v /\ Parsed(v["STRIKE_DISTANCE"]).t # "na"

\* every row of the chunk whose STRIKE could not be parsed holds the missing
\* marker there
BadStrikeCoerced ==
    step \in {"written", "empty_selection", "raised"} =>
      \A i \in 1..Len(chunk.rows) :
         BadStrike(rows[chunk.rows[i].idx]) => chunk.rows[i].v["STRIKE"] = NA

PartlySupplied == \E i \in 1..Len(chunk.rows) : Supplied(rows[chunk.rows[i].idx])

\* C8 as stated: when the batch supplies STRIKE_DISTANCE for some of its rows
\* every row written carries the distance the input supplied for it
C8_AsStated ==
    (step = "written" /\ PartlySupplied) =>
      \A j \in 1..Len(selected.rows) :
         LET raw == rows[selected.rows[j].idx]
         IN Supplied(raw) /\ selected.rows[j].v["STRIKE_DISTANCE"] = raw["STRIKE_DISTANCE"]

\* the rows of the chunk in the group of the input line at idx
SameGroup(idx) ==
    {i \in 1..Len(chunk.rows) :
       KeyOf(chunk.rows[i].v, GroupCols(chunk)) = KeyOf(rows[idx], GroupCols(chunk))}

\* C8 (amended): STRIKE_DISTANCE is derived only where the input supplies none
\* for the whole filtered batch or for the whole group of the row within it:
\* a batch that supplies some distance keeps every supplied cell until the
\* selection; a row written with a supplied distance carries it unchanged; a
\* row written without one carries STRIKE - UNDERLYING_LAST, and then no row of
\* its group in the batch supplied a distance
C8_DerivedPerBatchOrGroup ==
    /\ (step \in {"written", "empty_selection"} /\ PartlySupplied) =>
         \A i \in 1..Len(chunk.rows) :
            chunk.rows[i].v["STRIKE_DISTANCE"]
              = Parsed(rows[chunk.rows[i].idx]["STRIKE_DISTANCE"])
    /\ step = "written" =>
         \A j \in 1..Len(selected.rows) :
            LET raw == rows[selected.rows[j].idx]
                out == selected.rows[j].v["STRIKE_DISTANCE"]
            IN IF Supplied(raw) THEN out = raw["STRIKE_DISTANCE"]
               ELSE /\ {"STRIKE", "UNDERLYING_LAST"} \subseteq ToSet(columns)
                    /\ raw["STRIKE"].t = "num" /\ raw["UNDERLYING_LAST"].t = "num"
                    /\ out = Num(raw["STRIKE"].n - raw["UNDERLYING_LAST"].n)
                    /\ \A i \in SameGroup(selected.rows[j].idx) :
                          ~Supplied(rows[chunk.rows[i].idx])

\* one batch wrote a row on the distance it supplied and a row of another
\* group, which supplied none, on a derived distance
C8_Witness ==
    /\ step = "written"
    /\ \E j1, j2 \in 1..Len(selected.rows) :
          /\ Supplied(rows[selected.rows[j1].idx])
          /\ ~Supplied(rows[selected.rows[j2].idx])

\* STRIKE_DISTANCE_PCT was derived for the whole filtered batch
PctDerived ==
    /\ step \in {"written", "empty_selection"}
    /\ {"STRIKE", "UNDERLYING_LAST"} \subseteq ToSet(columns)
    /\ \/ "STRIKE_DISTANCE_PCT" \notin ToSet(columns)
       \/ \A i \in 1..Len(chunk.rows) :
             Parsed(rows[chunk.rows[i].idx]["STRIKE_DISTANCE_PCT"]) = NA

\* C9: a derived STRIKE_DISTANCE_PCT is the row's STRIKE_DISTANCE divided by
\* its UNDERLYING_LAST, and the missing marker when UNDERLYING_LAST is zero or
\* STRIKE or UNDERLYING_LAST is missing
C9_AsStated ==
    PctDerived =>
      \A i \in 1..Len(chunk.rows) :
         LET v == chunk.rows[i].v
             u == v["UNDERLYING_LAST"]
             sd == v["STRIKE_DISTANCE"]
         IN v["STRIKE_DISTANCE_PCT"] =
              IF v["STRIKE"].t = "num" /\ u.t = "num" /\ u.n # 0 /\ sd.t = "num"
              THEN Frac(sd.n * u.d, sd.d * u.n)
              ELSE NA

\* a sequence holds the elements of another one, each exactly once
IsPermutation(a, b) ==
    /\ Len(a) = Len(b)
    /\ ToSet(a) = ToSet(b)
    /\ \A i, j \in 1..Len(a) : a[i] = a[j] => i = j

\* the columns of cols that are in the list, in the order of the list
Present(list, cols) == SelectIdx(list, [i \in 1..Len(list) |-> list[i] \in ToSet(cols)], 1)

\* C10: a batch that produces output writes each column of its selection
\* exactly once: the preferred ones, then the extra ones, then the others
C10_AsStated ==
    step = "written" =>
      /\ \A i \in 1..Len(outfile) :
            (written[i].hdr /\ written[i].run = run /\ written[i].batch = batch) =>
               /\ IsPermutation(outfile[i].names, selected.cols)
               /\ \E rest \in {SelectIdx(selected.cols,
                                         [c \in 1..Len(selected.cols) |->
                                            selected.cols[c] \notin ToSet(OUTPUT_ORDER)
                                                                    \cup ToSet(EXTRAS)], 1)} :
                     outfile[i].names =
                        Present(OUTPUT_ORDER, selected.cols)
                        \o SelectIdx(Present(EXTRAS, selected.cols),
                                     [c \in 1..Len(Present(EXTRAS, selected.cols)) |->
                                        Present(EXTRAS, selected.cols)[c] \notin ToSet(OUTPUT_ORDER)], 1)
                        \o rest
      /\ \A i \in 1..Len(outfile) :
            (~written[i].hdr /\ written[i].run = run /\ written[i].batch = batch) =>
               Len(outfile[i].cells) = Len(selected.cols)

====
